---- MODULE Spec2Model ----
(***************************************************************************)
(* Model of setup.py, the packaging descriptor of PyDEM.                   *)
(*                                                                         *)
(* The script is a straight-line program: four imports, then one call of   *)
(* setup() whose keyword arguments are evaluated in source order before    *)
(* the call.  Its state is the filesystem it reads and writes (the         *)
(* directory of the script and the working directory), the interpreter     *)
(* environment (which modules import, how text files are read), the        *)
(* values of the arguments evaluated so far and what setup() registered.   *)
(* Program positions are the line numbers of setup.py.                     *)
(***************************************************************************)
EXTENDS Naturals, Sequences, FiniteSets, TLC

VARIABLES fs, cwd, installed, py, cmd, pc, args, meta, outcome, output,
          steps, run, log, fs0

vars == <<fs, cwd, installed, py, cmd, pc, args, meta, outcome, output,
          steps, run, log, fs0>>

env == <<cwd, installed, py, cmd, fs0>>

(*************************** bounds of the model ***************************)

\* how many distinct .pyx file names may sit in PyDEM/Analyzer
NumStems == 2
\* longest README.md content, in characters
MaxReadmeLen == 2
\* how many times in a row the command is invoked on the same tree
MaxRuns == 2

(******************************* filesystem ********************************)

\* an optional value: None, or Some(v)
None == {}

Some(v) == {v}

The(o) == CHOOSE v \in o : TRUE

\* the directory holding setup.py, and some other directory
Roots == {"script", "other"}

PyDEMDir == <<"PyDEM">>
AnalyzerDir == <<"PyDEM", "Analyzer">>
SubDir == <<"PyDEM", "Analyzer", "sub">>
TestsDir == <<"tests">>
AllDirs == {PyDEMDir, AnalyzerDir, SubDir, TestsDir}

Parent(d) == SubSeq(d, 1, Len(d) - 1)

IsPrefix(p, d) == Len(p) <= Len(d) /\ SubSeq(d, 1, Len(p)) = p

Stems == 1..NumStems

File(d, s, e) == [dir |-> d, stem |-> s, ext |-> e]

CFileOf(f) == File(f.dir, f.stem, "c")

\* characters of a text file: a letter, carriage return, line feed
Chars == {"a", "CR", "LF"}

RECURSIVE SeqsUpTo(_, _)
SeqsUpTo(S, n) ==
    IF n = 0 THEN {<<>>}
    ELSE LET shorter == SeqsUpTo(S, n - 1)
         IN shorter \cup {Append(s, c) : s \in {t \in shorter : Len(t) = n - 1}, c \in S}

Contents == SeqsUpTo(Chars, MaxReadmeLen)

EmptyTree ==
    [readme |-> None, dirs |-> {}, inits |-> {}, files |-> {}, fresh |-> {},
     built |-> {}]

(************************ interpreter and libraries ************************)

\* line 21-24: the modules the script imports, by line
ImportAt(line) ==
    CASE line = 21 -> "os"
      [] line = 22 -> "numpy"
      [] line = 23 -> "setuptools"
      [] line = 24 -> "Cython"

ImportLines == {21, 22, 23, 24}

Modules == {"os", "numpy", "setuptools", "Cython"}

\* os is part of the interpreter, the other three are installed or not
Optional == {"numpy", "setuptools", "Cython"}

\* numpy.get_include(): the header directory of the installed numpy
NumpyInclude == "numpy/core/include"

\* Text-mode read of a file.  Python 2 on POSIX returns the bytes as they
\* are; Python 3 reads with universal newlines: CR LF and a lone CR both
\* come back as LF.
RECURSIVE UniversalNewlines(_)
UniversalNewlines(s) ==
    IF s = <<>> THEN <<>>
    ELSE IF Head(s) = "CR"
         THEN IF Len(s) >= 2 /\ s[2] = "LF"
              THEN <<"LF">> \o UniversalNewlines(SubSeq(s, 3, Len(s)))
              ELSE <<"LF">> \o UniversalNewlines(Tail(s))
         ELSE <<Head(s)>> \o UniversalNewlines(Tail(s))

RECURSIVE RStrip(_)
RStrip(s) ==
    IF s # <<>> /\ s[Len(s)] \in {"CR", "LF"}
    THEN RStrip(SubSeq(s, 1, Len(s) - 1))
    ELSE s

TextRead_strip(version, bytes) ==
    RStrip(IF version = 2 THEN bytes ELSE UniversalNewlines(bytes))

\* open(path).read()
TextRead(version, bytes) ==
    IF version = 2 THEN bytes ELSE UniversalNewlines(bytes)

\* the base directory of a path relative to the working directory
RelBase_script(c, s) == s

RelBase(c, s) == c

\* os.path.dirname(__file__): the directory of the script
ScriptDir == "script"

\* open(os.path.join(os.path.dirname(__file__), fname)): the file's bytes,
\* or None when there is no such file (open raises IOError)
Open_fallback(tree, fname) ==
    IF fname = "README.md" /\ tree.readme # None THEN tree.readme ELSE Some(<<>>)

Open(tree, fname) ==
    IF fname = "README.md" THEN tree.readme ELSE None

\* setuptools: a directory is a package when it holds __init__.py and its
\* parent, unless that is the search root, is a package too
RECURSIVE IsPackage(_, _)
IsPackage(tree, d) ==
    /\ d \in tree.dirs
    /\ d \in tree.inits
    /\ (Len(d) = 1 \/ IsPackage(tree, Parent(d)))

\* find_packages() under the search root: the packages, by dotted path
find_packages(tree) == {d \in tree.dirs : IsPackage(tree, d)}

\* the glob pattern "PyDEM/Analyzer/*.pyx"
PyxPattern == [dir |-> AnalyzerDir, ext |-> "pyx"]

Glob_recursive(tree, pat) ==
    {f \in tree.files : IsPrefix(pat.dir, f.dir) /\ f.ext = pat.ext}

\* glob: "*" matches within one directory, never across a separator
Glob(tree, pat) ==
    {f \in tree.files : f.dir = pat.dir /\ f.ext = pat.ext}

\* sorted(glob): by file name
RECURSIVE Sorted(_)
Sorted(S) ==
    IF S = {} THEN <<>>
    ELSE LET m == CHOOSE f \in S : \A g \in S :
                     \/ f.stem < g.stem
                     \/ f.stem = g.stem /\ Len(f.dir) <= Len(g.dir)
         IN <<m>> \o Sorted(S \ {m})

\* Cython names a module after the packages enclosing its file
RECURSIVE PackageOf(_, _)
PackageOf(tree, d) ==
    IF d = <<>> \/ d \notin tree.inits THEN <<>>
    ELSE Append(PackageOf(tree, Parent(d)), d[Len(d)])

ModuleName(tree, f) == [pkg |-> PackageOf(tree, f.dir), stem |-> f.stem]

\* Cython's create_extension_list raises ValueError when the pattern
\* matches no file
MatchFails_never(matched) == FALSE

MatchFails(matched) == matched = {}

\* a .pyx is translated when its .c is missing or older than the .pyx
NeedsTranslation(tree, f) == CFileOf(f) \notin tree.fresh

\* Cython writes the generated .c next to the .pyx
WriteC_move(tree, fset) ==
    [tree EXCEPT !.files = (@ \ fset) \cup {CFileOf(f) : f \in fset},
                 !.fresh = @ \cup {CFileOf(f) : f \in fset}]

WriteC(tree, fset) ==
    [tree EXCEPT !.files = @ \cup {CFileOf(f) : f \in fset},
                 !.fresh = @ \cup {CFileOf(f) : f \in fset}]

Extension(tree, f) ==
    [name |-> ModuleName(tree, f), sources |-> <<CFileOf(f)>>, include_dirs |-> <<>>]

\* cythonize(pattern): one Extension per matched file, in sorted order
ExtensionList(tree, matched) ==
    LET files == Sorted(matched)
    IN [i \in 1..Len(files) |-> Extension(tree, files[i])]

(************************ the arguments of setup() *************************)

Req(n, o, v) == [name |-> n, op |-> o, version |-> v]

InstallRequires_unpinned ==
    <<Req("numpy", "", ""), Req("pyvtk", "", ""), Req("pytools", "", ""),
      Req("pygmsh", "", "")>>

\* line 41: 'numpy', 'pyvtk', 'pytools>=2011.2', 'pygmsh'
InstallRequires ==
    <<Req("numpy", "", ""), Req("pyvtk", "", ""), Req("pytools", ">=", "2011.2"),
      Req("pygmsh", "", "")>>

\* lines 43-47
Classifiers ==
    <<"Development Status :: 1 - Alpha", "Topic :: Utilities", "License :: GNU License">>

ZipSafe_true == TRUE

\* line 48
ZipSafe == FALSE

\* lines 30-37, 39-41, 43-48: the arguments that are literals
Literals ==
    [name |-> "PyDEM",
     version |-> "0.0.1",
     author |-> "Andrew Abi-Mansour",
     author_email |-> "andrew.gaam@gmail.com",
     description |-> "A set of tools for running, analyzing, and visualizing DEM simulations",
     license |-> "GNU v3",
     keywords |-> "Discrete Element Method, Granular Materials",
     url |-> "https://github.com/Andrew-AbiMansour/PyDEM",
     package_dir |-> [PyDEM |-> PyDEMDir],
     package_data |-> ("" :> <<".config">>),
     install_requires |-> InstallRequires,
     classifiers |-> Classifiers,
     zip_safe |-> ZipSafe]

\* the arguments that are calls, not yet evaluated
NoArgs ==
    [packages |-> None, long_description |-> None, ext_modules |-> None,
     include_dirs |-> None]

\* the order of execution: the imports, then the arguments that are calls,
\* in source order, then the call of setup() itself (line 29); 0 is exit
NextLine_lazy(line) ==
    CASE line = 21 -> 22
      [] line = 22 -> 23
      [] line = 23 -> 24
      [] line = 24 -> 38
      [] line = 38 -> 42
      [] line = 42 -> 50
      [] line = 49 -> 50
      [] line = 50 -> 29
      [] line = 29 -> 0

NextLine(line) ==
    CASE line = 21 -> 22
      [] line = 22 -> 23
      [] line = 23 -> 24
      [] line = 24 -> 38
      [] line = 38 -> 42
      [] line = 42 -> 49
      [] line = 49 -> 50
      [] line = 50 -> 29
      [] line = 29 -> 0

\* the commands the script is invoked with: a build, and three queries
Queries == {"packages", "requires", "long-description"}

Commands == {"build"} \cup Queries

NoSteps == [lines |-> <<>>, translated |-> {}, compiled |-> {}]

(***************************** initial states ******************************)

\* sets of directories closed under parent
DirSets == {D \in SUBSET AllDirs : \A d \in D : Len(d) = 1 \/ Parent(d) \in D}

\* the .pyx files a tree may hold: NumStems in PyDEM/Analyzer, one in its
\* sub-directory, one in PyDEM
PyxFiles ==
    {File(AnalyzerDir, s, "pyx") : s \in Stems}
        \cup {File(SubDir, 1, "pyx"), File(PyDEMDir, 1, "pyx")}

\* source trees with the given README: any directories, any of them with
\* __init__.py, any .pyx files in them, and next to a .pyx of PyDEM/Analyzer
\* possibly a generated .c, up to date or not
SourceTrees(readmes) ==
    UNION {UNION {UNION {
        {[readme |-> r, dirs |-> D, inits |-> I, files |-> P \cup C, fresh |-> F,
          built |-> {}] :
            r \in readmes, I \in SUBSET D, F \in SUBSET C} :
        C \in SUBSET {CFileOf(f) : f \in {g \in P : g.dir = AnalyzerDir}}} :
        P \in SUBSET {f \in PyxFiles : f.dir \in D}} :
        D \in DirSets}

\* a few trees: the project as laid out, the project without its extension
\* sources, a foreign tree with sources of its own, an empty directory
ProjectTree ==
    [readme |-> None, dirs |-> {PyDEMDir, AnalyzerDir}, inits |-> {PyDEMDir, AnalyzerDir},
     files |-> {File(AnalyzerDir, 1, "pyx")}, fresh |-> {}, built |-> {}]

BareTree ==
    [readme |-> None, dirs |-> {PyDEMDir}, inits |-> {PyDEMDir},
     files |-> {}, fresh |-> {}, built |-> {}]

ForeignTree ==
    [readme |-> None, dirs |-> {PyDEMDir, AnalyzerDir, TestsDir}, inits |-> {TestsDir},
     files |-> {File(AnalyzerDir, 2, "pyx"), File(AnalyzerDir, 2, "c")},
     fresh |-> {File(AnalyzerDir, 2, "c")}, built |-> {}]

SampleTrees == {ProjectTree, BareTree, ForeignTree, EmptyTree}

WithReadme(trees, readmes) == {[t EXCEPT !.readme = r] : t \in trees, r \in readmes}

\* every module installed, or exactly one missing
Installs == {Optional} \cup {Optional \ {m} : m \in Optional}

\* the script run in its own directory, on any source tree
InitTree ==
    /\ fs \in {[script |-> t, other |-> EmptyTree] :
                 t \in SourceTrees({Some(<<"a", "LF">>)})}
    /\ cwd = "script"
    /\ installed = Optional
    /\ py = 3
    /\ cmd \in Commands

\* the script run from any directory, in any environment, with any README
InitEnv ==
    /\ fs \in {[script |-> t, other |-> u] :
                 t \in WithReadme(SampleTrees, {None} \cup {Some(c) : c \in Contents}),
                 u \in WithReadme(SampleTrees, {None, Some(<<"a">>)})}
    /\ cwd \in Roots
    /\ cwd = "script" => fs.other = EmptyTree
    /\ installed \in Installs
    /\ py \in {2, 3}
    /\ cmd \in Commands

Init ==
    /\ InitTree \/ InitEnv
    /\ pc = 21
    /\ args = NoArgs
    /\ meta = None
    /\ outcome = "running"
    /\ output = None
    /\ steps = NoSteps
    /\ run = 1
    /\ log = <<>>
    /\ fs0 = fs

(******************************** the script *******************************)

Step(line) ==
    /\ pc = line
    /\ outcome = "running"
    /\ steps' = [steps EXCEPT !.lines = Append(@, line)]

\* an uncaught exception ends the invocation
Raise(exc) ==
    /\ outcome' = exc
    /\ pc' = 0

Continue(line) ==
    /\ pc' = NextLine(line)
    /\ outcome' = outcome

\* lines 21-24: import os, numpy, setuptools, Cython.Build
Import ==
    \E line \in ImportLines :
        /\ Step(line)
        /\ IF ImportAt(line) \in installed \cup {"os"}
           THEN Continue(line)
           ELSE Raise("ImportError")
        /\ UNCHANGED <<fs, args, meta, output, run, log, env>>

\* line 38: packages=find_packages()
FindPackages ==
    /\ Step(38)
    /\ args' = [args EXCEPT !.packages = Some(find_packages(fs[RelBase(cwd, ScriptDir)]))]
    /\ Continue(38)
    /\ UNCHANGED <<fs, meta, output, run, log, env>>

\* lines 26-27, 42: long_description=read('README.md')
read ==
    /\ Step(42)
    /\ LET f == Open(fs[ScriptDir], "README.md")
       IN IF f = None
          THEN Raise("IOError") /\ args' = args
          ELSE /\ args' = [args EXCEPT !.long_description = Some(TextRead(py, The(f)))]
               /\ Continue(42)
    /\ UNCHANGED <<fs, meta, output, run, log, env>>

\* line 49: ext_modules=cythonize("PyDEM/Analyzer/*.pyx")
cythonize ==
    /\ pc = 49
    /\ outcome = "running"
    /\ LET root == RelBase(cwd, ScriptDir)
           tree == fs[root]
           matched == Glob(tree, PyxPattern)
           stale == {f \in matched : NeedsTranslation(tree, f)}
       IN IF MatchFails(matched)
          THEN /\ Raise("ValueError")
               /\ steps' = [steps EXCEPT !.lines = Append(@, 49)]
               /\ UNCHANGED <<fs, args>>
          ELSE /\ fs' = [fs EXCEPT ![root] = WriteC(tree, stale)]
               /\ args' = [args EXCEPT !.ext_modules = Some(ExtensionList(tree, matched))]
               /\ steps' = [steps EXCEPT !.lines = Append(@, 49), !.translated = stale]
               /\ Continue(49)
    /\ UNCHANGED <<meta, output, run, log, env>>

\* line 50: include_dirs=[numpy.get_include()]
GetInclude ==
    /\ Step(50)
    /\ args' = [args EXCEPT !.include_dirs = Some(<<NumpyInclude>>)]
    /\ Continue(50)
    /\ UNCHANGED <<fs, meta, output, run, log, env>>

\* the header directory of the running interpreter
PythonInclude == "python/include"

\* "x or []"
OrEmpty(o) == IF o = None THEN <<>> ELSE The(o)

\* setup(**attrs) registers the attributes in a Distribution
Distribution(a) ==
    [k \in DOMAIN Literals \cup DOMAIN a |->
        IF k \in DOMAIN a THEN a[k] ELSE Literals[k]]

\* build_ext: the include path of one extension is its own include_dirs,
\* then the distribution's, then the interpreter's
IncludePath(dist, ext) ==
    ext.include_dirs \o OrEmpty(dist.include_dirs) \o <<PythonInclude>>

Compile(dist, ext) == [name |-> ext.name, include_path |-> IncludePath(dist, ext)]

\* build_ext compiles the extensions that build/ does not hold yet
OutOfDate(tree, dist) ==
    LET exts == OrEmpty(dist.ext_modules)
    IN {exts[i] : i \in {j \in DOMAIN exts : exts[j].name \notin {b.name : b \in tree.built}}}

build_ext(tree, dist) ==
    [tree EXCEPT !.built = @ \cup {Compile(dist, e) : e \in OutOfDate(tree, dist)}]

\* what a query prints
Display(dist, query) ==
    CASE query = "packages" -> dist.packages
      [] query = "requires" -> dist.install_requires
      [] query = "long-description" -> dist.long_description

\* line 29: setup(...) registers the metadata and runs the command
setup ==
    /\ pc = 29
    /\ outcome = "running"
    /\ LET dist == Distribution(args)
           root == RelBase(cwd, ScriptDir)
       IN /\ meta' = Some(dist)
          /\ IF cmd = "build"
             THEN /\ fs' = [fs EXCEPT ![root] = build_ext(fs[root], dist)]
                  /\ output' = Some([packages |-> dist.packages,
                                     modules |-> fs'[root].built])
                  /\ steps' = [steps EXCEPT
                                  !.lines = Append(@, 29),
                                  !.compiled = {e.name : e \in OutOfDate(fs[root], dist)}]
             ELSE /\ fs' = fs
                  /\ output' = Some(Display(dist, cmd))
                  /\ steps' = [steps EXCEPT !.lines = Append(@, 29)]
    /\ outcome' = "ok"
    /\ pc' = NextLine(29)
    /\ UNCHANGED <<args, run, log, env>>

\* the same command is invoked again: nothing of the process survives,
\* the filesystem does
Reinvoke ==
    /\ pc = 0
    /\ run < MaxRuns
    /\ log' = Append(log, [outcome |-> outcome, meta |-> meta, output |-> output,
                           steps |-> steps])
    /\ run' = run + 1
    /\ pc' = 21
    /\ args' = NoArgs
    /\ meta' = None
    /\ outcome' = "running"
    /\ output' = None
    /\ steps' = NoSteps
    /\ UNCHANGED <<fs, env>>

Next ==
    \/ Import
    \/ FindPackages
    \/ read
    \/ cythonize
    \/ GetInclude
    \/ setup
    \/ Reinvoke

Spec == Init /\ [][Next]_vars

(****************************** properties *********************************)

Range(s) == {s[i] : i \in DOMAIN s}

\* the invocation has ended
Exited == pc = 0

\* the tree the script was started in, as it was at the start
StartTree == fs0[cwd]

\* the .pyx files directly in PyDEM/Analyzer of the working directory
DirectPyx == {f \in StartTree.files : f.dir = AnalyzerDir /\ f.ext = "pyx"}

\* C1: whenever setup() has registered the metadata, the runtime
\* dependencies are exactly numpy, pyvtk, pytools and pygmsh, four entries,
\* pytools alone constrained, to >= 2011.2.
C1_InstallRequires ==
    \A d \in meta :
        LET reqs == d.install_requires
        IN /\ Len(reqs) = 4
           /\ {r.name : r \in Range(reqs)} = {"numpy", "pyvtk", "pytools", "pygmsh"}
           /\ {r \in Range(reqs) : r.op # ""} = {Req("pytools", ">=", "2011.2")}
           /\ \A r \in Range(reqs) : r.op = "" => r.version = ""

C1_Witness ==
    /\ Exited
    /\ cmd = "requires"
    /\ outcome = "ok"
    /\ \E o \in output : Len(o) = 4

\* C2 as claimed: for every content of README.md in the script's directory
\* the registered long description equals that content verbatim.
C2_Original ==
    \A d \in meta : d.long_description = fs[ScriptDir].readme

HasCR(s) == "CR" \in Range(s)

\* C2 as amended: the long description is read from README.md of the
\* script's directory; it equals the content verbatim when the content holds
\* no carriage return or the file is read without newline translation
\* (Python 2), and otherwise it is the content with every CR LF and every
\* other CR turned into LF, so it holds no carriage return and is no longer
\* than the content.
C2_LongDescription ==
    \A d \in meta :
        /\ d.long_description # None
        /\ fs[ScriptDir].readme # None
        /\ \A text \in d.long_description : \A bytes \in fs[ScriptDir].readme :
              /\ (~HasCR(bytes) \/ py = 2) => text = bytes
              /\ (HasCR(bytes) /\ py = 3) =>
                    /\ ~HasCR(text)
                    /\ Len(text) <= Len(bytes)
                    /\ {c \in Range(text) : c # "LF"}
                          = {c \in Range(bytes) : c # "CR" /\ c # "LF"}

C2_Witness ==
    /\ meta # None
    /\ cwd = "other"
    /\ fs["other"].readme = Some(<<"a">>)
    /\ fs[ScriptDir].readme = Some(<<"a", "LF">>)
    /\ py = 3

\* the packages that lie in the directory package_dir maps 'PyDEM' to
UnderPackageDir ==
    {d \in find_packages(StartTree) : IsPrefix(Literals.package_dir.PyDEM, d)}

\* C3: a query for the packages returns exactly the packages found under
\* the directory package_dir maps 'PyDEM' to: all of them, and none from
\* outside that directory.
C3_PackagesUnderPackageDir ==
    (cmd = "packages" /\ outcome = "ok") =>
        \A o \in output : \A listed \in o : listed = UnderPackageDir

\* C4: a build in a tree whose PyDEM/Analyzer is absent or holds no .pyx
\* file ends in an error, registers nothing and produces no distribution.
C4_NoSourcesNoBuild ==
    (cmd = "build" /\ DirectPyx = {}) =>
        /\ meta = None
        /\ output = None
        /\ fs[cwd].built = {}
        /\ outcome # "ok"
        /\ Exited => outcome \in {"ImportError", "IOError", "ValueError"}

C4_Witness ==
    /\ Exited
    /\ cmd = "build"
    /\ outcome = "ValueError"
    /\ AnalyzerDir \in StartTree.dirs
    /\ File(SubDir, 1, "pyx") \in StartTree.files

\* C5: when numpy or Cython does not import the invocation ends in
\* ImportError, when README.md is missing from the script's directory it
\* ends in an error (IOError once the imports succeed); in either case no
\* fallback description is used, setup() registers nothing and nothing is
\* output.
C5_MissingInput ==
    LET noImport == "numpy" \notin installed \/ "Cython" \notin installed
        noReadme == fs[ScriptDir].readme = None
    IN (noImport \/ noReadme) =>
          /\ meta = None
          /\ output = None
          /\ args.long_description = None
          /\ outcome # "ok"
          /\ (Exited /\ noImport) => outcome = "ImportError"
          /\ (Exited /\ noReadme /\ installed = Optional) => outcome = "IOError"

C5_Witness ==
    /\ Exited
    /\ outcome = "IOError"
    /\ DirectPyx # {}
    /\ cwd = ScriptDir

\* the files of a tree that are sources: everything but generated .c files
Sources(tree) ==
    [readme |-> tree.readme, dirs |-> tree.dirs, inits |-> tree.inits,
     files |-> {f \in tree.files : f.ext # "c"}]

\* C6 as claimed: an invocation only reads the filesystem, so the tree is
\* unchanged when it ends, and a second invocation of the same command
\* performs the same steps and has the same outcome as the first.
C6_Original ==
    Exited =>
        /\ fs = fs0
        /\ \A i \in DOMAIN log : steps = log[i].steps /\ outcome = log[i].outcome

\* C6 as amended: an invocation leaves README.md, the directories, the
\* __init__.py files and the .pyx files as they were and removes no file,
\* but it writes to the working directory: a generated .c next to each
\* matched .pyx, and the build output.  A later invocation of the same
\* command executes the same lines and ends with the same outcome, metadata
\* and output as the one before; what the earlier one left behind only makes
\* it skip the translation and the compilation of what is up to date.
C6_Reinvocation ==
    /\ \A r \in Roots :
          /\ Sources(fs[r]) = Sources(fs0[r])
          /\ fs0[r].files \subseteq fs[r].files
          /\ r # cwd => fs[r] = fs0[r]
    /\ fs[cwd].files \ fs0[cwd].files \subseteq {CFileOf(f) : f \in DirectPyx}
    /\ Exited =>
          \A i \in DOMAIN log :
              /\ outcome = log[i].outcome
              /\ meta = log[i].meta
              /\ output = log[i].output
              /\ steps.lines = log[i].steps.lines
              /\ steps.translated = {}
              /\ steps.compiled = {}

C6_Witness ==
    /\ Exited
    /\ run = 2
    /\ cmd = "build"
    /\ outcome = "ok"
    /\ log[1].steps.translated # {}
    /\ log[1].steps.compiled # {}
    /\ fs # fs0

FromFilesystem == {"packages", "long_description", "ext_modules"}

\* C8: whatever the source tree, the registered metadata is non-zip-safe,
\* carries the alpha classifier, the name PyDEM and the version 0.0.1, and
\* apart from the package list, the long description and the extension
\* modules every field has one fixed value.
C8_ConstantMetadata ==
    \A d \in meta :
        /\ d.zip_safe = FALSE
        /\ "Development Status :: 1 - Alpha" \in Range(d.classifiers)
        /\ d.name = "PyDEM"
        /\ d.version = "0.0.1"
        /\ \A k \in DOMAIN d \ (FromFilesystem \cup {"include_dirs"}) : d[k] = Literals[k]
        /\ d.include_dirs = Some(<<NumpyInclude>>)
        /\ \A i \in DOMAIN log : \A e \in log[i].meta :
              \A k \in DOMAIN d \ FromFilesystem : d[k] = e[k]

C8_Witness ==
    /\ Exited
    /\ \E d \in meta : TestsDir \in The(d.packages) /\ d.ext_modules # Some(<<>>)
    /\ cwd = "other"

\* C9: setup() is entered only after find_packages(), the read of README.md
\* and cythonize() have all run, whatever the command; so a query too
\* translates the .pyx files first, and ends in an error, with nothing
\* registered or output, when README.md is missing or no .pyx matches.
C9_ArgumentsFirst ==
    /\ (pc = 29 \/ meta # None) =>
          /\ {38, 42, 49} \subseteq Range(steps.lines)
          /\ args.packages # None
          /\ args.long_description # None
          /\ args.ext_modules # None
          /\ \A f \in DirectPyx : CFileOf(f) \in fs[cwd].fresh
    /\ (cmd \in Queries /\ (DirectPyx = {} \/ fs[ScriptDir].readme = None)) =>
          /\ meta = None
          /\ output = None
          /\ Exited => outcome \in {"ImportError", "IOError", "ValueError"}

C9_Witness ==
    /\ Exited
    /\ cmd = "requires"
    /\ outcome = "ValueError"
    /\ fs[ScriptDir].readme # None

\* C10: README.md is taken from the directory of the script, the packages
\* and the extension sources from the working directory; when the two
\* differ the README of the script's directory is still the one read, and
\* what the working directory holds decides the packages and extensions.
C10_BaseDirectories ==
    /\ \A d \in meta :
          /\ d.long_description = Some(TextRead(py, The(fs[ScriptDir].readme)))
          /\ d.packages = Some(find_packages(fs0[cwd]))
          /\ {e.sources[1] : e \in Range(The(d.ext_modules))}
                = {CFileOf(f) : f \in Glob(fs0[cwd], PyxPattern)}
    /\ outcome = "IOError" <=> (Exited /\ fs[ScriptDir].readme = None /\ 42 \in Range(steps.lines))
    /\ outcome = "ValueError" => Glob(fs0[cwd], PyxPattern) = {}

C10_Witness ==
    /\ meta # None
    /\ cwd # ScriptDir
    /\ fs[cwd].readme # fs[ScriptDir].readme
    /\ find_packages(fs0[cwd]) # find_packages(fs0[ScriptDir])
    /\ Glob(fs0[cwd], PyxPattern) # {}
    /\ Glob(fs0[ScriptDir], PyxPattern) = {}

====
